---- MODULE Spec2Model ----
(***************************************************************************)
(* KV_Server: an LRU cache (cache.c) in front of a PostgreSQL table that   *)
(* is reached through a round-robin pool of locked connections (db.c),     *)
(* driven by the HTTP handlers handle_post_kv / handle_get_kv /            *)
(* handle_delete_kv (http part of cache.c).                                *)
(***************************************************************************)
EXTENDS Integers, Sequences, FiniteSets, TLC

(***************************************************************************)
(* Bounds of the model.                                                    *)
(***************************************************************************)
NumThreads == 2        \* civetweb worker threads of the concurrent system
PoolSize == 2          \* --db_pool
MaxCapacity == 2       \* --cache_capacity is drawn from 1..MaxCapacity
MaxRequests == 3       \* requests served per run of the concurrent system
MaxSeqRequests == 3    \* requests served per run of the sequential caller
HistLen == 2           \* answered requests the sequential caller remembers
MaxGets == 2           \* cache_get calls per run of the cache-only system
MaxPuts == 4           \* cache_put calls per run of the put-only system
MaxLifeRequests == 2  \* requests served between start and stop of the server
MaxLiveRequests == 2  \* requests served in the system with fair scheduling
MaxRRRequests == 2  \* requests served in the round-robin system
MaxPool == 3           \* --db_pool is drawn from 1..MaxPool in the round-robin system

(***************************************************************************)
(* Program constants.                                                      *)
(***************************************************************************)
NULL == 0              \* the null pointer
HashSeed == 5381       \* hash_fn: unsigned long h = 5381
HalfWord == 65536      \* unsigned int rr_idx is kept as two 16-bit halves <<high, low>>

(***************************************************************************)
(* Inputs.  A key is a C string, written as the sequence of its bytes;     *)
(* values are opaque strings, written as small numbers.                    *)
(***************************************************************************)
KeyA == <<97>>
KeyB == <<98>>
KeyC == <<99>>
KeyD == <<100>>
KeyK == <<107>>        \* shares a bucket with another key for 5, 7 and 9 buckets
CacheKeys == {KeyA, KeyB, KeyC, KeyD, KeyK}
CacheValues == 1 .. 2
SysKeys == {KeyA, KeyB}
SysValues == 1 .. 2
PutKeys == {KeyA, KeyB, KeyC}
NoKey == <<>>          \* key field of a node that is not allocated
NoVal == 0             \* value field of a node that is not allocated; NULL char*

VARIABLES
  cache,      \* the cache_t object: buckets, entries, LRU list, counters
  cache_mu,   \* cache->mu: 0 when free, else the thread that holds it
  ref,        \* reference LRU: sequence of <<key, value>>, most recent first
  log,        \* the puts made so far, while every call was a put of a fresh key
  scen,       \* calls made so far while they are the capacity-2 scenario, else -1
  db,         \* table kv_store: key -> value, NoVal when there is no row
  pool_size,  \* pool_size; 0 when pool is NULL
  pool_conn,  \* pool[i].conn: "none", "open", "failed" (bad PGconn), "closed" (PQfinish)
  init_rc,      \* what db_init returned to start_http_server; 0 before the call
  phase,      \* start_http_server: "boot" before db_init, then "running" or "failed"
  rr_idx,     \* static unsigned int rr_idx, as <<high half, low half>>
  pool_mu,    \* pool[i].mu: 0 when free, else the thread that holds it
  pc,         \* where each worker thread is in its handler
  req,        \* the request a worker thread is handling
  loc,        \* the handler's local variables
  resp,       \* the response a handler has written
  nreq,       \* requests received so far
  everStored, \* the <<key, value>> pairs kv_store has held at some time
  hist,       \* sequential caller: its last requests with their responses
  snap,       \* sequential caller: the cache when its current request arrived
  race        \* concurrent callers: what was true of a request's key when it arrived

cvars == <<cache, cache_mu, ref, log, scen>>
cobs == <<ref, log, scen>>
svars == <<db, pool_size, pool_conn, init_rc, phase, rr_idx, pool_mu, pc, req, loc, resp, nreq, everStored>>
sobs == <<hist, snap, race>>
vars == <<cache, cache_mu, ref, log, scen, db, pool_size, pool_conn, init_rc, phase, rr_idx, pool_mu, pc, req,
          loc, resp, nreq, everStored, hist, snap, race>>

(***************************************************************************)
(* cache.c                                                                 *)
(***************************************************************************)
default_nbuckets(cap) == (cap * 2) + 3

\* h = ((h << 5) + h) + c.  The keys of the model have at most 3 bytes, so h stays
\* below 2^28 and the 64-bit unsigned long never wraps.
RECURSIVE hash_loop(_, _, _)
hash_loop(s, i, h) ==
  IF i > Len(s) THEN h
  ELSE hash_loop(s, i + 1, (h * 32) + h + s[i])

hash_fn(s) == hash_loop(s, 1, HashSeed)

\* Entries live in a heap of capacity+1 cells; a cell is free when its key is NoKey.
Nodes(c) == 1 .. (c.capacity + 1)

cache_init(capacity) ==
  [ capacity |-> capacity,
    nbuckets |-> default_nbuckets(capacity),
    buckets  |-> [b \in 0 .. (default_nbuckets(capacity) - 1) |-> NULL],
    ekey     |-> [e \in 1 .. (capacity + 1) |-> NoKey],
    evalue   |-> [e \in 1 .. (capacity + 1) |-> NoVal],
    hnext    |-> [e \in 1 .. (capacity + 1) |-> NULL],
    prev     |-> [e \in 1 .. (capacity + 1) |-> NULL],
    next     |-> [e \in 1 .. (capacity + 1) |-> NULL],
    lru_head |-> NULL,
    lru_tail |-> NULL,
    size     |-> 0,
    hits     |-> 0,
    misses   |-> 0 ]

detach_lru(c, e) ==
  IF e = NULL THEN c
  ELSE
    LET c1 == IF c.prev[e] # NULL
              THEN [c EXCEPT !.next[c.prev[e]] = c.next[e]]
              ELSE [c EXCEPT !.lru_head = c.next[e]]
        c2 == IF c1.next[e] # NULL
              THEN [c1 EXCEPT !.prev[c1.next[e]] = c1.prev[e]]
              ELSE [c1 EXCEPT !.lru_tail = c1.prev[e]]
    IN [c2 EXCEPT !.prev[e] = NULL, !.next[e] = NULL]

insert_head(c, e) ==
  LET c1 == [c EXCEPT !.prev[e] = NULL, !.next[e] = c.lru_head]
      c2 == IF c1.lru_head # NULL
            THEN [c1 EXCEPT !.prev[c1.lru_head] = e]
            ELSE c1
      c3 == [c2 EXCEPT !.lru_head = e]
  IN IF c3.lru_tail = NULL THEN [c3 EXCEPT !.lru_tail = e] ELSE c3

\* calloc(1, sizeof(entry_t)): a free cell (the lowest one).
alloc_entry(c) == CHOOSE e \in Nodes(c) : c.ekey[e] = NoKey /\ \A f \in Nodes(c) : c.ekey[f] = NoKey => e <= f

\* free(e->key); free(e->value); free(e)
free_entry(c, e) == [c EXCEPT !.ekey[e] = NoKey, !.evalue[e] = NoVal, !.hnext[e] = NULL]

\* while (cur) { if (strcmp(cur->key, key) == 0) ...; cur = cur->hnext; }
RECURSIVE bucket_find(_, _, _)
bucket_find(c, cur, key) ==
  IF cur = NULL THEN NULL
  ELSE IF c.ekey[cur] = key THEN cur
  ELSE bucket_find(c, c.hnext[cur], key)

lookup(c, key) == bucket_find(c, c.buckets[hash_fn(key) % c.nbuckets], key)

\* while (*pp && *pp != e) pp = &(*pp)->hnext;  if (*pp == e) *pp = e->hnext;
RECURSIVE chain_unlink(_, _, _)
chain_unlink(c, cur, e) ==
  IF c.hnext[cur] = NULL THEN c
  ELSE IF c.hnext[cur] = e THEN [c EXCEPT !.hnext[cur] = c.hnext[e]]
  ELSE chain_unlink(c, c.hnext[cur], e)

bucket_unlink(c, h, e) ==
  IF c.buckets[h] = NULL THEN c
  ELSE IF c.buckets[h] = e THEN [c EXCEPT !.buckets[h] = c.hnext[e]]
  ELSE chain_unlink(c, c.buckets[h], e)

\* Mutant: the most recently used entry is evicted.
evict_one_head(c) ==
  LET e  == c.lru_head
      h  == hash_fn(c.ekey[e]) % c.nbuckets
      c1 == bucket_unlink(c, h, e)
      c2 == detach_lru(c1, e)
      c3 == free_entry(c2, e)
  IN [c3 EXCEPT !.size = c3.size - 1]

\* Mutant: the evicted entry is not taken out of its hash bucket.
evict_one_no_unlink(c) ==
  LET e  == c.lru_tail
      c2 == detach_lru(c, e)
  IN [c2 EXCEPT !.size = c2.size - 1]

\* One iteration of the loop of evict_if_needed.
evict_one(c) ==
  LET e  == c.lru_tail
      h  == hash_fn(c.ekey[e]) % c.nbuckets
      c1 == bucket_unlink(c, h, e)
      c2 == detach_lru(c1, e)
      c3 == free_entry(c2, e)
  IN [c3 EXCEPT !.size = c3.size - 1]

\* Mutant: the bound is off by one.
evict_cond_off_by_one(c) == c.size > c.capacity + 1 /\ c.lru_tail # NULL

evict_cond(c) == c.size > c.capacity /\ c.lru_tail # NULL

RECURSIVE evict_if_needed(_)
evict_if_needed(c) ==
  IF evict_cond(c) THEN evict_if_needed(evict_one(c)) ELSE c

\* The keys evict_if_needed removes from c, in order.
RECURSIVE evict_keys(_)
evict_keys(c) ==
  IF evict_cond(c) THEN <<c.ekey[c.lru_tail]>> \o evict_keys(evict_one(c)) ELSE <<>>

\* Mutant: a hit does not move the entry to the head.
cache_get_no_promote(c, key) ==
  LET cur == lookup(c, key)
  IN IF cur # NULL
     THEN [c |-> [c EXCEPT !.hits = c.hits + 1], ret |-> c.evalue[cur]]
     ELSE [c |-> [c EXCEPT !.misses = c.misses + 1], ret |-> NoVal]

\* Mutant: a hit returns the value of the entry that was at the head of the list.
cache_get_head_value(c, key) ==
  LET cur == lookup(c, key)
  IN IF cur # NULL
     THEN LET c1 == insert_head(detach_lru(c, cur), cur)
          IN [c |-> [c1 EXCEPT !.hits = c1.hits + 1], ret |-> c.evalue[c.lru_head]]
     ELSE [c |-> [c EXCEPT !.misses = c.misses + 1], ret |-> NoVal]

\* Mutant: a hit is counted as a miss.
cache_get_hit_as_miss(c, key) ==
  LET cur == lookup(c, key)
  IN IF cur # NULL
     THEN LET c1 == insert_head(detach_lru(c, cur), cur)
          IN [c |-> [c1 EXCEPT !.misses = c1.misses + 1], ret |-> c.evalue[cur]]
     ELSE [c |-> [c EXCEPT !.misses = c.misses + 1], ret |-> NoVal]

\* cache_get between lock and unlock: the new cache and the returned copy.
cache_get(c, key) ==
  LET cur == lookup(c, key)
  IN IF cur # NULL
     THEN LET c1 == insert_head(detach_lru(c, cur), cur)
          IN [c |-> [c1 EXCEPT !.hits = c1.hits + 1], ret |-> c.evalue[cur]]
     ELSE [c |-> [c EXCEPT !.misses = c.misses + 1], ret |-> NoVal]

\* Mutant: an existing entry is moved to the head but keeps its old value.
cache_put_insert_keep_value(c, key, value) ==
  LET cur == lookup(c, key)
      h   == hash_fn(key) % c.nbuckets
  IN IF cur # NULL
     THEN [c |-> insert_head(detach_lru(c, cur), cur), inserted |-> FALSE]
     ELSE LET e  == alloc_entry(c)
              c1 == [c EXCEPT !.ekey[e] = key, !.evalue[e] = value,
                              !.hnext[e] = c.buckets[h], !.buckets[h] = e]
              c2 == insert_head(c1, e)
          IN [c |-> [c2 EXCEPT !.size = c2.size + 1], inserted |-> TRUE]

\* Mutant: the bucket is not searched, every put links a new entry.
cache_put_insert_no_lookup(c, key, value) ==
  LET h  == hash_fn(key) % c.nbuckets
      e  == alloc_entry(c)
      c1 == [c EXCEPT !.ekey[e] = key, !.evalue[e] = value,
                      !.hnext[e] = c.buckets[h], !.buckets[h] = e]
      c2 == insert_head(c1, e)
  IN [c |-> [c2 EXCEPT !.size = c2.size + 1], inserted |-> TRUE]

\* Mutant: an update of an existing entry counts as a new entry.
cache_put_insert_count_update(c, key, value) ==
  LET cur == lookup(c, key)
      h   == hash_fn(key) % c.nbuckets
  IN IF cur # NULL
     THEN LET c1 == [c EXCEPT !.evalue[cur] = value, !.size = c.size + 1]
          IN [c |-> insert_head(detach_lru(c1, cur), cur), inserted |-> FALSE]
     ELSE LET e  == alloc_entry(c)
              c1 == [c EXCEPT !.ekey[e] = key, !.evalue[e] = value,
                              !.hnext[e] = c.buckets[h], !.buckets[h] = e]
              c2 == insert_head(c1, e)
          IN [c |-> [c2 EXCEPT !.size = c2.size + 1], inserted |-> TRUE]

\* cache_put from the lock up to (not including) evict_if_needed.
cache_put_insert(c, key, value) ==
  LET cur == lookup(c, key)
      h   == hash_fn(key) % c.nbuckets
  IN IF cur # NULL
     THEN LET c1 == [c EXCEPT !.evalue[cur] = value]
          IN [c |-> insert_head(detach_lru(c1, cur), cur), inserted |-> FALSE]
     ELSE LET e  == alloc_entry(c)
              c1 == [c EXCEPT !.ekey[e] = key, !.evalue[e] = value,
                              !.hnext[e] = c.buckets[h], !.buckets[h] = e]
              c2 == insert_head(c1, e)
          IN [c |-> [c2 EXCEPT !.size = c2.size + 1], inserted |-> TRUE]

cache_put(c, key, value) ==
  LET r == cache_put_insert(c, key, value)
  IN IF r.inserted THEN evict_if_needed(r.c) ELSE r.c

\* Mutant: the entry is unlinked from its bucket but left in the LRU list.
cache_delete_no_detach(c, key) ==
  LET found == lookup(c, key)
      h     == hash_fn(key) % c.nbuckets
  IN IF found # NULL
     THEN LET c1 == bucket_unlink(c, h, found)
          IN [c |-> [c1 EXCEPT !.size = c1.size - 1], ret |-> 0]
     ELSE [c |-> c, ret |-> -1]

\* cache_delete between lock and unlock: the new cache and the return code.
cache_delete(c, key) ==
  LET found == lookup(c, key)
      h     == hash_fn(key) % c.nbuckets
  IN IF found # NULL
     THEN LET c1 == bucket_unlink(c, h, found)
              c2 == detach_lru(c1, found)
              c3 == free_entry(c2, found)
          IN [c |-> [c3 EXCEPT !.size = c3.size - 1], ret |-> 0]
     ELSE [c |-> c, ret |-> -1]

cache_stats(c) == [hits |-> c.hits, misses |-> c.misses, items |-> c.size]

(***************************************************************************)
(* Views of the cache.                                                     *)
(***************************************************************************)
\* The LRU list from a node towards the tail, as <<key, value>> pairs.
RECURSIVE lru_from(_, _, _)
lru_from(c, e, fuel) ==
  IF e = NULL \/ fuel = 0 THEN <<>>
  ELSE <<(<<c.ekey[e], c.evalue[e]>>)>> \o lru_from(c, c.next[e], fuel - 1)

lru_list(c) == lru_from(c, c.lru_head, c.capacity + 2)

\* The entries reachable through the hash buckets.
RECURSIVE chain_nodes(_, _, _)
chain_nodes(c, e, fuel) ==
  IF e = NULL \/ fuel = 0 THEN {}
  ELSE {e} \cup chain_nodes(c, c.hnext[e], fuel - 1)

hash_nodes(c) == UNION {chain_nodes(c, c.buckets[b], c.capacity + 2) : b \in DOMAIN c.buckets}

cached_keys(c) == {c.ekey[e] : e \in hash_nodes(c)}

cached_value(c, key) == IF lookup(c, key) = NULL THEN NoVal ELSE c.evalue[lookup(c, key)]

(***************************************************************************)
(* Reference LRU: a sequence of <<key, value>>, most recently used first.  *)
(***************************************************************************)
RefHas(r, key) == \E i \in 1 .. Len(r) : r[i][1] = key
RefWithout(r, key) == SelectSeq(r, LAMBDA p : p[1] # key)
RefValue(r, key) == IF RefHas(r, key) THEN (CHOOSE p \in {r[i] : i \in 1 .. Len(r)} : p[1] = key)[2] ELSE NoVal
RefGet(r, key) == IF RefHas(r, key) THEN <<(<<key, RefValue(r, key)>>)>> \o RefWithout(r, key) ELSE r
RefPutAll(r, key, value) == <<(<<key, value>>)>> \o RefWithout(r, key)
RefPut(r, key, value, cap) == SubSeq(RefPutAll(r, key, value), 1, IF Len(RefPutAll(r, key, value)) > cap THEN cap ELSE Len(RefPutAll(r, key, value)))
RefEvicted(r, key, value, cap) == [i \in 1 .. (Len(RefPutAll(r, key, value)) - Len(RefPut(r, key, value, cap))) |-> RefPutAll(r, key, value)[cap + i][1]]

(***************************************************************************)
(* The cache-only system: one caller makes cache calls one after another.  *)
(***************************************************************************)
\* put(a,1), put(b,2), put(c,3), get(b), put(d,4)
Scenario == << <<"put", KeyA, 1>>, <<"put", KeyB, 2>>, <<"put", KeyC, 3>>,
               <<"get", KeyB, NoVal>>, <<"put", KeyD, 4>> >>

ScenNext(call) ==
  IF scen >= 0 /\ scen < Len(Scenario) /\ cache.capacity = 2 /\ Scenario[scen + 1] = call
  THEN scen + 1 ELSE -1

\* log: the <<key, value>> pairs put so far, while every call was a put of a fresh key
\* and no more than capacity+1 calls were made.
LogNext(call) ==
  IF log.ok /\ Len(log.puts) <= cache.capacity /\ call[1] = "put" /\ ~ \E i \in 1 .. Len(log.puts) : log.puts[i][1] = call[2]
  THEN [ok |-> TRUE, puts |-> Append(log.puts, <<call[2], call[3]>>)]
  ELSE [ok |-> FALSE, puts |-> <<>>]

\* The observer also keeps the call made last, what it returned, and how many
\* cache_get calls have returned.
NoCall == <<"", NoKey, NoVal>>
Observe(call, ret) ==
  /\ scen' = ScenNext(call)
  /\ log' = LogNext(call) @@
             [last |-> call, ret |-> ret,
              gets |-> IF call[1] = "get" THEN log.gets + 1 ELSE log.gets]

CacheGetCall(key) ==
  /\ cache_mu = 0
  /\ cache.hits + cache.misses < MaxGets
  /\ Observe(<<"get", key, NoVal>>, cache_get(cache, key).ret)
  /\ cache' = cache_get(cache, key).c
  /\ ref' = RefGet(ref, key)
  /\ UNCHANGED cache_mu

CachePutCall(key, value) ==
  /\ cache_mu = 0
  /\ Observe(<<"put", key, value>>, 0)
  /\ cache' = cache_put(cache, key, value)
  /\ ref' = RefPut(ref, key, value, cache.capacity)
  /\ UNCHANGED cache_mu

CacheDeleteCall(key) ==
  /\ cache_mu = 0
  /\ Observe(<<"delete", key, NoVal>>, cache_delete(cache, key).ret)
  /\ cache' = cache_delete(cache, key).c
  /\ ref' = RefWithout(ref, key)
  /\ UNCHANGED cache_mu

(***************************************************************************)
(* db.c                                                                    *)
(***************************************************************************)
Threads == 1 .. NumThreads
NoReq == [method |-> "", key |-> NoKey, value |-> NoVal]
NoStats == [hits |-> 0, misses |-> 0, items |-> 0]
NoLoc ==
  [call |-> "", idx |-> 0, rc_db |-> 0, val |-> NoVal, store |-> "none", ndb |-> 0,
   stats |-> NoStats]
NoResp == [status |-> 0, value |-> NoVal, source |-> ""]

\* What the observer of the concurrent callers keeps: pre[t], the row and the cache
\* entry of its key when t's Put arrived; deleted, the keys for which a Delete whose
\* db_delete returned 0 has returned with no Put of the key in flight when it began
\* or started since; clean[t], the same for t's Delete in flight; after[t], t's Get
\* started when its key was in deleted; writes[t], how many Puts and Deletes of its
\* key have been in flight during t's Get (counted up to 2); written[k], the value
\* of the latest cache_put(k, .) a worker of the put-only system has called.
NoRace ==
  [pre |-> [t \in Threads |-> <<NoVal, NoVal>>], deleted |-> {},
   clean |-> [t \in Threads |-> FALSE], after |-> [t \in Threads |-> FALSE],
   writes |-> [t \in Threads |-> 0], written |-> [k \in PutKeys |-> NoVal]]

\* The slots the model has room for.
NumSlots == IF MaxPool > PoolSize THEN MaxPool ELSE PoolSize
Slots == 0 .. (NumSlots - 1)
NoConns == [i \in Slots |-> "none"]

\* Mutant: the connections opened before the failing one are left open.
db_init_no_cleanup(pool_s, fail_at) ==
  IF fail_at < pool_s
  THEN [rc |-> -1, pool_size |-> 0,
        conn |-> [j \in Slots |-> IF j < fail_at THEN "open" ELSE IF j = fail_at THEN "failed" ELSE "none"]]
  ELSE [rc |-> 0, pool_size |-> pool_s, conn |-> [j \in Slots |-> IF j < pool_s THEN "open" ELSE "none"]]

\* db_init's loop from connection i on; PQconnectdb fails at connection fail_at
\* (no failure when fail_at = pool_s).  On failure the connections 0 .. i-1 are
\* finished, pool = NULL, pool_size = 0, return -1; the bad PGconn is not finished.
RECURSIVE db_init_loop(_, _, _, _)
db_init_loop(i, pool_s, fail_at, conn) ==
  IF i >= pool_s THEN [rc |-> 0, pool_size |-> pool_s, conn |-> conn]
  ELSE IF i = fail_at
       THEN [rc |-> -1, pool_size |-> 0,
             conn |-> [j \in Slots |-> IF j < i THEN "closed" ELSE IF j = i THEN "failed" ELSE conn[j]]]
       ELSE db_init_loop(i + 1, pool_s, fail_at, [conn EXCEPT ![i] = "open"])

\* db_init(conninfo, pool_s) on a NULL pool.
db_init(pool_s, fail_at) == db_init_loop(0, pool_s, fail_at, NoConns)

\* start_http_server after mg_start: a failed db_init is logged as a warning, the
\* handlers are registered and 0 is returned either way.
start_http_server_fatal(db_rc) == IF db_rc # 0 THEN "failed" ELSE "running"
start_http_server(db_rc) == "running"

\* rr_idx % pool_size, computed on the two halves.
rr_mod(rr, n) == (((rr[1] % n) * (HalfWord % n)) + rr[2]) % n

\* __sync_fetch_and_add(&rr_idx, 1) on a 32-bit unsigned int.
rr_inc(rr) ==
  IF rr[2] + 1 < HalfWord THEN <<rr[1], rr[2] + 1>>
  ELSE <<(rr[1] + 1) % HalfWord, 0>>

\* acquire_conn up to the lock: the slot chosen and the new counter.
acquire_conn(rr, n) == [idx |-> rr_mod(rr, n), rr |-> rr_inc(rr)]

\* SELECT value FROM kv_store WHERE key = $1.  A row's value is kept as the text the
\* INSERT was given; db_get copies PQgetvalue's bytes unchanged (memcpy).
\* Mutant: "no row" returns a code of its own.
db_get_not_found_code(d, key, query_ok, alloc_ok) ==
  IF ~ query_ok THEN [rc |-> -1, val |-> NoVal, store |-> "fail"]
  ELSE IF d[key] = NoVal THEN [rc |-> 1, val |-> NoVal, store |-> "absent"]
  ELSE IF ~ alloc_ok THEN [rc |-> -1, val |-> NoVal, store |-> "nomem"]
  ELSE [rc |-> 0, val |-> d[key], store |-> "ok"]

\* Each path that returns -1 leaves *value_out as the caller set it (NULL); the path
\* taken is kept in store: "fail" (status not PGRES_TUPLES_OK), "absent" (no tuple),
\* "nomem" (malloc returned NULL).
db_get(d, key, query_ok, alloc_ok) ==
  IF ~ query_ok THEN [rc |-> -1, val |-> NoVal, store |-> "fail"]
  ELSE IF d[key] = NoVal THEN [rc |-> -1, val |-> NoVal, store |-> "absent"]
  ELSE IF ~ alloc_ok THEN [rc |-> -1, val |-> NoVal, store |-> "nomem"]
  ELSE [rc |-> 0, val |-> d[key], store |-> "ok"]

\* Mutant: the result status of the INSERT is not looked at.
db_put_ignore_status(d, key, value, query_ok) ==
  IF ~ query_ok THEN [d |-> d, rc |-> 0, store |-> "fail"]
  ELSE [d |-> [d EXCEPT ![key] = value], rc |-> 0, store |-> "ok"]

\* INSERT INTO kv_store(key, value) VALUES($1, $2) ON CONFLICT (key) DO UPDATE ...
db_put(d, key, value, query_ok) ==
  IF ~ query_ok THEN [d |-> d, rc |-> -1, store |-> "fail"]
  ELSE [d |-> [d EXCEPT ![key] = value], rc |-> 0, store |-> "ok"]

\* DELETE FROM kv_store WHERE key = $1: PGRES_COMMAND_OK whether or not a row matched.
db_delete(d, key, query_ok) ==
  IF ~ query_ok THEN [d |-> d, rc |-> -1, store |-> "fail"]
  ELSE [d |-> [d EXCEPT ![key] = NoVal], rc |-> 0,
        store |-> IF d[key] = NoVal THEN "absent" ELSE "ok"]

\* The statement a handler's store call runs on the locked connection.
db_exec(d, r, query_ok, alloc_ok) ==
  IF r.method = "POST" THEN db_put(d, r.key, r.value, query_ok)
  ELSE IF r.method = "DELETE" THEN db_delete(d, r.key, query_ok)
  ELSE [d |-> d] @@ db_get(d, r.key, query_ok, alloc_ok)

(***************************************************************************)
(* The handlers: what each does with the result of a call.  A result is    *)
(* [pc, call, resp]: where the thread goes, the cache call it makes next,  *)
(* and the response it has written when pc is "done".                      *)
(***************************************************************************)
Goto(p, call) == [pc |-> p, call |-> call, resp |-> NoResp]
Respond(status, value, source) ==
  [pc |-> "done", call |-> "", resp |-> [status |-> status, value |-> value, source |-> source]]

\* Mutant: cache_put is called whatever db_put returned.
handle_post_kv_db_always_cache(rc) == Goto("cache_lock", "put")

\* Mutant: the write is not put into the cache.
handle_post_kv_db_no_cache(rc) ==
  IF rc # 0 THEN Respond(500, NoVal, "") ELSE Respond(201, NoVal, "")

\* handle_post_kv: db_put first; cache_put only if it returned 0.
handle_post_kv_db(rc) ==
  IF rc # 0 THEN Respond(500, NoVal, "") ELSE Goto("cache_lock", "put")

handle_post_kv_cache == Respond(201, NoVal, "")

\* Mutant: the cache's answer is ignored and the store is read on every Get.
handle_get_kv_cache_always_db(val) == Goto("db_call", "")

\* Mutant: cache_put is called whatever db_get returned.
handle_get_kv_db_always_put(rc) == Goto("cache_lock", "put")

\* handle_get_kv: cache_get; on a miss db_get, and cache_put if it returned 0.
handle_get_kv_cache(val) ==
  IF val # NoVal THEN Respond(200, val, "Cache") ELSE Goto("db_call", "")

handle_get_kv_db(rc) ==
  IF rc = 0 THEN Goto("cache_lock", "put") ELSE Respond(404, NoVal, "")

handle_get_kv_put(dbval) == Respond(200, dbval, "DB")

handle_delete_kv_resp(rc_db) ==
  IF rc_db = 0 THEN Respond(200, NoVal, "") ELSE Respond(404, NoVal, "")

\* Mutant: cache_delete is not called.
handle_delete_kv_db_no_cache(rc_db) == handle_delete_kv_resp(rc_db)

\* Mutant: cache_delete is called only when db_delete returned 0.
handle_delete_kv_db_only_ok(rc_db) ==
  IF rc_db = 0 THEN Goto("cache_lock", "delete") ELSE handle_delete_kv_resp(rc_db)

\* handle_delete_kv: db_delete, then cache_delete whatever rc_db is.
handle_delete_kv_db(rc_db) == Goto("cache_lock", "delete")

\* kv_dispatch: the first call of each handler.
kv_dispatch(method) ==
  IF method = "GET" THEN Goto("cache_lock", "get") ELSE Goto("db_call", "")

after_db(method, rc) ==
  IF method = "POST" THEN handle_post_kv_db(rc)
  ELSE IF method = "GET" THEN handle_get_kv_db(rc)
  ELSE handle_delete_kv_db(rc)

\* The key and value a handler passes to cache_put.
put_value(t) == IF req[t].method = "POST" THEN req[t].value ELSE loc[t].val

after_cache_put(t) ==
  IF req[t].method = "POST" THEN handle_post_kv_cache ELSE handle_get_kv_put(loc[t].val)

(***************************************************************************)
(* Steps of a worker thread.                                               *)
(***************************************************************************)
Continue(t, k, l) ==
  /\ pc' = [pc EXCEPT ![t] = k.pc]
  /\ loc' = [loc EXCEPT ![t] = [l EXCEPT !.call = k.call]]
  /\ resp' = [resp EXCEPT ![t] = k.resp]

Recv(t, method, key, value, max) ==
  /\ phase = "running"
  /\ pc[t] = "idle"
  /\ nreq < max
  /\ nreq' = nreq + 1
  /\ req' = [req EXCEPT ![t] = [method |-> method, key |-> key, value |-> value]]
  /\ Continue(t, kv_dispatch(method), NoLoc)
  /\ UNCHANGED <<cache, cache_mu, db, pool_size, pool_conn, init_rc, phase, rr_idx, pool_mu, everStored>>

\* Mutant: the counter is advanced before pool is tested.
DbCall_counts_first(t) ==
  /\ pc[t] = "db_call"
  /\ rr_idx' = rr_inc(rr_idx)
  /\ IF pool_size = 0
     THEN Continue(t, after_db(req[t].method, -1),
                   [loc[t] EXCEPT !.rc_db = -1, !.store = "nopool", !.ndb = @ + 1])
     ELSE Continue(t, Goto("db_lock", ""),
                   [loc[t] EXCEPT !.idx = acquire_conn(rr_idx, pool_size).idx, !.ndb = @ + 1])
  /\ UNCHANGED <<cache, cache_mu, db, pool_size, pool_conn, init_rc, phase, pool_mu, req, nreq, everStored>>

\* The handler calls db_get, db_put or db_delete (ndb counts these calls):
\* if (!pool) return -1;  else acquire_conn picks the slot.
DbCall(t) ==
  /\ pc[t] = "db_call"
  /\ IF pool_size = 0
     THEN /\ Continue(t, after_db(req[t].method, -1),
                      [loc[t] EXCEPT !.rc_db = -1, !.store = "nopool", !.ndb = @ + 1])
          /\ UNCHANGED rr_idx
     ELSE /\ rr_idx' = acquire_conn(rr_idx, pool_size).rr
          /\ Continue(t, Goto("db_lock", ""),
                      [loc[t] EXCEPT !.idx = acquire_conn(rr_idx, pool_size).idx, !.ndb = @ + 1])
  /\ UNCHANGED <<cache, cache_mu, db, pool_size, pool_conn, init_rc, phase, pool_mu, req, nreq, everStored>>

\* Mutant: the slot is taken without waiting for its mutex.
DbLock_no_wait(t) ==
  /\ pc[t] = "db_lock"
  /\ pool_mu' = [pool_mu EXCEPT ![loc[t].idx] = t]
  /\ Continue(t, Goto("db_exec", ""), loc[t])
  /\ UNCHANGED <<cache, cache_mu, db, pool_size, pool_conn, init_rc, phase, rr_idx, req, nreq, everStored>>

\* Mutant: a thread whose slot is busy takes any slot that is free.
DbLock_any_free(t) ==
  /\ pc[t] = "db_lock"
  /\ \E i \in 0 .. (pool_size - 1) :
       /\ pool_mu[i] = 0
       /\ pool_mu' = [pool_mu EXCEPT ![i] = t]
       /\ Continue(t, Goto("db_exec", ""), [loc[t] EXCEPT !.idx = i])
  /\ UNCHANGED <<cache, cache_mu, db, pool_size, pool_conn, init_rc, phase, rr_idx, req, nreq, everStored>>

\* pthread_mutex_lock(&pool[idx].mu)
DbLock(t) ==
  /\ pc[t] = "db_lock"
  /\ pool_mu[loc[t].idx] = 0
  /\ pool_mu' = [pool_mu EXCEPT ![loc[t].idx] = t]
  /\ Continue(t, Goto("db_exec", ""), loc[t])
  /\ UNCHANGED <<cache, cache_mu, db, pool_size, pool_conn, init_rc, phase, rr_idx, req, nreq, everStored>>

\* Mutant: release_conn unlocks slot 0 whatever slot was acquired.
DbExec_release_slot0(t, query_ok, alloc_ok) ==
  /\ pc[t] = "db_exec"
  /\ LET r == db_exec(db, req[t], query_ok, alloc_ok)
     IN /\ db' = r.d
        /\ everStored' = everStored \cup {<<k, r.d[k]>> : k \in {j \in DOMAIN r.d : r.d[j] # NoVal}}
        /\ Continue(t, after_db(req[t].method, r.rc),
                    [loc[t] EXCEPT !.rc_db = r.rc, !.store = r.store,
                                   !.val = IF req[t].method = "GET" THEN r.val ELSE @])
  /\ pool_mu' = [pool_mu EXCEPT ![0] = 0]
  /\ UNCHANGED <<cache, cache_mu, pool_size, pool_conn, init_rc, phase, rr_idx, req, nreq>>

\* Mutant: the store call returns without release_conn.
DbExec_keep_slot(t, query_ok, alloc_ok) ==
  /\ pc[t] = "db_exec"
  /\ LET r == db_exec(db, req[t], query_ok, alloc_ok)
     IN /\ db' = r.d
        /\ everStored' = everStored \cup {<<k, r.d[k]>> : k \in {j \in DOMAIN r.d : r.d[j] # NoVal}}
        /\ Continue(t, after_db(req[t].method, r.rc),
                    [loc[t] EXCEPT !.rc_db = r.rc, !.store = r.store,
                                   !.val = IF req[t].method = "GET" THEN r.val ELSE @])
  /\ UNCHANGED <<cache, cache_mu, pool_size, pool_conn, init_rc, phase, rr_idx, pool_mu, req, nreq>>

\* Mutant: the error paths return without release_conn.
DbExec_error_keeps_slot(t, query_ok, alloc_ok) ==
  /\ pc[t] = "db_exec"
  /\ LET r == db_exec(db, req[t], query_ok, alloc_ok)
     IN /\ db' = r.d
        /\ everStored' = everStored \cup {<<k, r.d[k]>> : k \in {j \in DOMAIN r.d : r.d[j] # NoVal}}
        /\ Continue(t, after_db(req[t].method, r.rc),
                    [loc[t] EXCEPT !.rc_db = r.rc, !.store = r.store,
                                   !.val = IF req[t].method = "GET" THEN r.val ELSE @])
        /\ pool_mu' = IF r.rc = 0 THEN [pool_mu EXCEPT ![loc[t].idx] = 0] ELSE pool_mu
  /\ UNCHANGED <<cache, cache_mu, pool_size, pool_conn, init_rc, phase, rr_idx, req, nreq>>

\* PQexecParams on the locked connection, release_conn, return to the handler.
DbExec(t, query_ok, alloc_ok) ==
  /\ pc[t] = "db_exec"
  /\ LET r == db_exec(db, req[t], query_ok, alloc_ok)
     IN /\ db' = r.d
        /\ everStored' = everStored \cup {<<k, r.d[k]>> : k \in {j \in DOMAIN r.d : r.d[j] # NoVal}}
        /\ Continue(t, after_db(req[t].method, r.rc),
                    [loc[t] EXCEPT !.rc_db = r.rc, !.store = r.store,
                                   !.val = IF req[t].method = "GET" THEN r.val ELSE @])
  /\ pool_mu' = [pool_mu EXCEPT ![loc[t].idx] = 0]
  /\ UNCHANGED <<cache, cache_mu, pool_size, pool_conn, init_rc, phase, rr_idx, req, nreq>>

\* Mutant: the cache is entered without waiting for cache->mu.
CacheLock_no_wait(t) ==
  /\ pc[t] = "cache_lock"
  /\ cache_mu' = t
  /\ Continue(t, Goto("cache_body", loc[t].call), loc[t])
  /\ UNCHANGED <<cache, db, pool_size, pool_conn, init_rc, phase, rr_idx, pool_mu, req, nreq, everStored>>

\* pthread_mutex_lock(&cache->mu)
CacheLock(t) ==
  /\ pc[t] = "cache_lock"
  /\ cache_mu = 0
  /\ cache_mu' = t
  /\ Continue(t, Goto("cache_body", loc[t].call), loc[t])
  /\ UNCHANGED <<cache, db, pool_size, pool_conn, init_rc, phase, rr_idx, pool_mu, req, nreq, everStored>>

CacheGetBody(t) ==
  /\ pc[t] = "cache_body" /\ loc[t].call = "get"
  /\ LET r == cache_get(cache, req[t].key)
     IN /\ cache' = r.c
        /\ Continue(t, handle_get_kv_cache(r.ret), [loc[t] EXCEPT !.val = r.ret])
  /\ cache_mu' = 0
  /\ UNCHANGED <<db, pool_size, pool_conn, init_rc, phase, rr_idx, pool_mu, req, nreq, everStored>>

\* Mutant: cache_delete returns without pthread_mutex_unlock.
CacheDeleteBody_no_unlock(t) ==
  /\ pc[t] = "cache_body" /\ loc[t].call = "delete"
  /\ cache' = cache_delete(cache, req[t].key).c
  /\ Continue(t, handle_delete_kv_resp(loc[t].rc_db), loc[t])
  /\ UNCHANGED <<cache_mu, db, pool_size, pool_conn, init_rc, phase, rr_idx, pool_mu, req, nreq, everStored>>

CacheDeleteBody(t) ==
  /\ pc[t] = "cache_body" /\ loc[t].call = "delete"
  /\ cache' = cache_delete(cache, req[t].key).c
  /\ Continue(t, handle_delete_kv_resp(loc[t].rc_db), loc[t])
  /\ cache_mu' = 0
  /\ UNCHANGED <<db, pool_size, pool_conn, init_rc, phase, rr_idx, pool_mu, req, nreq, everStored>>

\* cache_put up to evict_if_needed; an update of an existing entry unlocks and returns.
CachePutBody(t) ==
  /\ pc[t] = "cache_body" /\ loc[t].call = "put"
  /\ LET r == cache_put_insert(cache, req[t].key, put_value(t))
     IN /\ cache' = r.c
        /\ IF r.inserted
           THEN /\ Continue(t, Goto("cache_evict", "put"), loc[t])
                /\ UNCHANGED cache_mu
           ELSE /\ Continue(t, after_cache_put(t), loc[t])
                /\ cache_mu' = 0
  /\ UNCHANGED <<db, pool_size, pool_conn, init_rc, phase, rr_idx, pool_mu, req, nreq, everStored>>

\* evict_if_needed(); pthread_mutex_unlock(&cache->mu); return 0;
CacheEvict(t) ==
  /\ pc[t] = "cache_evict"
  /\ cache' = evict_if_needed(cache)
  /\ cache_mu' = 0
  /\ Continue(t, after_cache_put(t), loc[t])
  /\ UNCHANGED <<db, pool_size, pool_conn, init_rc, phase, rr_idx, pool_mu, req, nreq, everStored>>

\* The handler returns 1; the worker waits for its next request.
Return(t) ==
  /\ pc[t] = "done"
  /\ pc' = [pc EXCEPT ![t] = "idle"]
  /\ req' = [req EXCEPT ![t] = NoReq]
  /\ loc' = [loc EXCEPT ![t] = NoLoc]
  /\ resp' = [resp EXCEPT ![t] = NoResp]
  /\ UNCHANGED <<cache, cache_mu, db, pool_size, pool_conn, init_rc, phase, rr_idx, pool_mu, nreq, everStored>>

Methods == {"GET", "POST", "DELETE"}

\* The requests a client sends: a value only with POST.
Requests == {r \in Methods \X SysKeys \X (SysValues \cup {NoVal}) : (r[1] = "POST") = (r[3] # NoVal)}

(***************************************************************************)
(* Initial states.  start_http_server has run cache_init and mg_start: the *)
(* cache is empty, the pool is NULL, kv_store holds what earlier runs left.*)
(***************************************************************************)
\* kv_store at startup: no row, or one row left by an earlier run.
InitialStores == {[k \in SysKeys |-> NoVal], [k \in SysKeys |-> IF k = KeyA THEN 1 ELSE NoVal]}

InitSys ==
  /\ \E capacity \in 1 .. MaxCapacity : cache = cache_init(capacity)
  /\ cache_mu = 0
  /\ db \in InitialStores
  /\ pool_size = 0
  /\ pool_conn = NoConns
  /\ init_rc = 0
  /\ phase = "boot"
  /\ rr_idx = <<0, 0>>
  /\ pool_mu = [i \in Slots |-> 0]
  /\ pc = [t \in Threads |-> "idle"]
  /\ req = [t \in Threads |-> NoReq]
  /\ loc = [t \in Threads |-> NoLoc]
  /\ resp = [t \in Threads |-> NoResp]
  /\ nreq = 0
  /\ everStored = {<<k, db[k]>> : k \in {j \in SysKeys : db[j] # NoVal}}

InitObs ==
  /\ ref = <<>>
  /\ log = [ok |-> TRUE, puts |-> <<>>, last |-> NoCall, ret |-> 0, gets |-> 0]
  /\ scen = 0
  /\ hist = <<>>
  /\ snap = cache
  /\ race = NoRace

Init == InitSys /\ InitObs

\* db_init(conninfo, db_pool) with --db_pool from 1 .. PoolSize, then the registration
\* of the handlers: from here on the workers are handed requests.
StartServer(pool_s, fail_at) ==
  /\ phase = "boot"
  /\ pool_size' = db_init(pool_s, fail_at).pool_size
  /\ pool_conn' = db_init(pool_s, fail_at).conn
  /\ init_rc' = db_init(pool_s, fail_at).rc
  /\ phase' = start_http_server(db_init(pool_s, fail_at).rc)
  /\ UNCHANGED <<cache, cache_mu, db, rr_idx, pool_mu, pc, req, loc, resp, nreq, everStored>>

InitCache ==
  /\ InitSys
  /\ InitObs
  /\ \A k \in SysKeys : db[k] = NoVal

\* The puts the cache-only caller makes: every key with every value of CacheValues,
\* and the puts of the scenario.
PutInputs ==
  (CacheKeys \X CacheValues)
    \cup {<<Scenario[i][2], Scenario[i][3]>> : i \in {j \in 1 .. Len(Scenario) : Scenario[j][1] = "put"}}

NextCache ==
  \/ \E key \in CacheKeys : CacheGetCall(key) /\ UNCHANGED svars /\ UNCHANGED sobs
  \/ \E p \in PutInputs : CachePutCall(p[1], p[2]) /\ UNCHANGED svars /\ UNCHANGED sobs
  \/ \E key \in CacheKeys : CacheDeleteCall(key) /\ UNCHANGED svars /\ UNCHANGED sobs

SpecCache == InitCache /\ [][NextCache]_vars

(***************************************************************************)
(* The cache-only system as main starts it: --cache_capacity is any number *)
(* atoi can return from 0 up to MaxCapacity (main and start_http_server    *)
(* pass it on unchecked; a negative number becomes a huge size_t and is    *)
(* left out here).                                                         *)
(***************************************************************************)
ConfigCapacities == 0 .. MaxCapacity

\* cache_init((size_t)cache_capacity)
main_cache_init(cache_capacity) == cache_init(cache_capacity)

InitConfig ==
  /\ \E cache_capacity \in ConfigCapacities : cache = main_cache_init(cache_capacity)
  /\ cache_mu = 0
  /\ db = [k \in SysKeys |-> NoVal]
  /\ pool_size = 0
  /\ pool_conn = NoConns
  /\ init_rc = 0
  /\ phase = "boot"
  /\ rr_idx = <<0, 0>>
  /\ pool_mu = [i \in Slots |-> 0]
  /\ pc = [t \in Threads |-> "idle"]
  /\ req = [t \in Threads |-> NoReq]
  /\ loc = [t \in Threads |-> NoLoc]
  /\ resp = [t \in Threads |-> NoResp]
  /\ nreq = 0
  /\ everStored = {}
  /\ InitObs

NextConfig ==
  \/ \E key \in CacheKeys : CacheGetCall(key) /\ UNCHANGED svars /\ UNCHANGED sobs
  \/ \E p \in PutInputs : CachePutCall(p[1], p[2]) /\ UNCHANGED svars /\ UNCHANGED sobs
  \/ \E key \in CacheKeys : CacheDeleteCall(key) /\ UNCHANGED svars /\ UNCHANGED sobs

SpecConfig == InitConfig /\ [][NextConfig]_vars

(***************************************************************************)
(* The concurrent system: NumThreads workers serve requests.               *)
(***************************************************************************)
Next ==
  \/ \E pool_s \in 1 .. PoolSize : \E fail_at \in 0 .. pool_s : StartServer(pool_s, fail_at) /\ UNCHANGED cobs /\ UNCHANGED sobs
  \/ \E t \in Threads, r \in Requests : Recv(t, r[1], r[2], r[3], MaxRequests) /\ UNCHANGED cobs /\ UNCHANGED sobs
  \/ \E t \in Threads : DbCall(t) /\ UNCHANGED cobs /\ UNCHANGED sobs
  \/ \E t \in Threads : DbLock(t) /\ UNCHANGED cobs /\ UNCHANGED sobs
  \/ \E t \in Threads, query_ok \in BOOLEAN, alloc_ok \in BOOLEAN : DbExec(t, query_ok, alloc_ok) /\ UNCHANGED cobs /\ UNCHANGED sobs
  \/ \E t \in Threads : CacheLock(t) /\ UNCHANGED cobs /\ UNCHANGED sobs
  \/ \E t \in Threads : CacheGetBody(t) /\ UNCHANGED cobs /\ UNCHANGED sobs
  \/ \E t \in Threads : CachePutBody(t) /\ UNCHANGED cobs /\ UNCHANGED sobs
  \/ \E t \in Threads : CacheDeleteBody(t) /\ UNCHANGED cobs /\ UNCHANGED sobs
  \/ \E t \in Threads : CacheEvict(t) /\ UNCHANGED cobs /\ UNCHANGED sobs
  \/ \E t \in Threads : Return(t) /\ UNCHANGED cobs /\ UNCHANGED sobs

Spec == Init /\ [][Next]_vars

(***************************************************************************)
(* The sequential caller: one worker serves one request after another.     *)
(* hist keeps the last HistLen requests it has answered, snap the cache as *)
(* it was when the current request arrived.                                *)
(***************************************************************************)
Caller == CHOOSE t \in Threads : \A u \in Threads : t <= u

HistEntry(t) ==
  [method |-> req[t].method, key |-> req[t].key, value |-> req[t].value,
   status |-> resp[t].status, ret |-> resp[t].value, source |-> resp[t].source]

HistAppend(h, e) == IF Len(h) < HistLen THEN Append(h, e) ELSE Append(Tail(h), e)

SeqRecv(method, key, value) ==
  /\ Recv(Caller, method, key, value, MaxSeqRequests)
  /\ snap' = cache
  /\ UNCHANGED <<hist, race>>

SeqReturn ==
  /\ Return(Caller)
  /\ hist' = HistAppend(hist, HistEntry(Caller))
  /\ snap' = cache
  /\ UNCHANGED race

NextSeq ==
  \/ \E pool_s \in 1 .. PoolSize : \E fail_at \in 0 .. pool_s : StartServer(pool_s, fail_at) /\ UNCHANGED cobs /\ UNCHANGED sobs
  \/ \E r \in Requests : SeqRecv(r[1], r[2], r[3]) /\ UNCHANGED cobs
  \/ DbCall(Caller) /\ UNCHANGED cobs /\ UNCHANGED sobs
  \/ DbLock(Caller) /\ UNCHANGED cobs /\ UNCHANGED sobs
  \/ \E query_ok \in BOOLEAN, alloc_ok \in BOOLEAN : DbExec(Caller, query_ok, alloc_ok) /\ UNCHANGED cobs /\ UNCHANGED sobs
  \/ CacheLock(Caller) /\ UNCHANGED cobs /\ UNCHANGED sobs
  \/ CacheGetBody(Caller) /\ UNCHANGED cobs /\ UNCHANGED sobs
  \/ CachePutBody(Caller) /\ UNCHANGED cobs /\ UNCHANGED sobs
  \/ CacheDeleteBody(Caller) /\ UNCHANGED cobs /\ UNCHANGED sobs
  \/ CacheEvict(Caller) /\ UNCHANGED cobs /\ UNCHANGED sobs
  \/ SeqReturn /\ UNCHANGED cobs

SpecSeq == Init /\ [][NextSeq]_vars

(***************************************************************************)
(* The concurrent system with the observer race: what held for a request's *)
(* key when the request arrived, and which Deletes have returned.          *)
(***************************************************************************)
Min2(n) == IF n < 2 THEN n ELSE 2
WritersOf(key) == {u \in Threads : req[u].key = key /\ req[u].method \in {"POST", "DELETE"}}

RaceRecv(t, method, key, value) ==
  /\ Recv(t, method, key, value, MaxRequests)
  /\ race' =
       [pre |-> [race.pre EXCEPT ![t] = IF method = "POST"
                                       THEN <<db[key], cached_value(cache, key)>>
                                       ELSE <<NoVal, NoVal>>],
        deleted |-> IF method = "POST" THEN race.deleted \ {key} ELSE race.deleted,
        clean |-> [u \in Threads |->
                     IF u = t
                     THEN method = "DELETE"
                          /\ \A w \in Threads : ~ (req[w].method = "POST" /\ req[w].key = key)
                     ELSE race.clean[u] /\ ~ (method = "POST" /\ req[u].key = key)],
        after |-> [race.after EXCEPT ![t] = (method = "GET" /\ key \in race.deleted)],
        writes |-> [u \in Threads |->
                      IF u = t
                      THEN IF method = "GET" THEN Min2(Cardinality(WritersOf(key))) ELSE 0
                      ELSE IF req[u].method = "GET" /\ req[u].key = key /\ method # "GET"
                           THEN Min2(race.writes[u] + 1) ELSE race.writes[u]],
        written |-> race.written]
  /\ UNCHANGED <<hist, snap>>

RaceReturn(t) ==
  /\ Return(t)
  /\ race' =
       [pre |-> [race.pre EXCEPT ![t] = <<NoVal, NoVal>>],
        deleted |-> IF req[t].method = "DELETE" /\ race.clean[t] /\ loc[t].rc_db = 0
                    THEN race.deleted \cup {req[t].key} ELSE race.deleted,
        clean |-> [race.clean EXCEPT ![t] = FALSE],
        after |-> [race.after EXCEPT ![t] = FALSE],
        writes |-> [race.writes EXCEPT ![t] = 0],
        written |-> race.written]
  /\ UNCHANGED <<hist, snap>>

NextRace ==
  \/ \E pool_s \in 1 .. PoolSize : \E fail_at \in 0 .. pool_s : StartServer(pool_s, fail_at) /\ UNCHANGED cobs /\ UNCHANGED sobs
  \/ \E t \in Threads, r \in Requests : RaceRecv(t, r[1], r[2], r[3]) /\ UNCHANGED cobs
  \/ \E t \in Threads : DbCall(t) /\ UNCHANGED cobs /\ UNCHANGED sobs
  \/ \E t \in Threads : DbLock(t) /\ UNCHANGED cobs /\ UNCHANGED sobs
  \/ \E t \in Threads, query_ok \in BOOLEAN, alloc_ok \in BOOLEAN : DbExec(t, query_ok, alloc_ok) /\ UNCHANGED cobs /\ UNCHANGED sobs
  \/ \E t \in Threads : CacheLock(t) /\ UNCHANGED cobs /\ UNCHANGED sobs
  \/ \E t \in Threads : CacheGetBody(t) /\ UNCHANGED cobs /\ UNCHANGED sobs
  \/ \E t \in Threads : CachePutBody(t) /\ UNCHANGED cobs /\ UNCHANGED sobs
  \/ \E t \in Threads : CacheDeleteBody(t) /\ UNCHANGED cobs /\ UNCHANGED sobs
  \/ \E t \in Threads : CacheEvict(t) /\ UNCHANGED cobs /\ UNCHANGED sobs
  \/ \E t \in Threads : RaceReturn(t) /\ UNCHANGED cobs

SpecRace == Init /\ [][NextRace]_vars

(***************************************************************************)
(* The concurrent system with GET /metrics requests.                       *)
(***************************************************************************)
\* handle_metrics: the handler's first call is cache_stats.
handle_metrics == Goto("cache_lock", "stats")

MetricsRecv(t) ==
  /\ phase = "running"
  /\ pc[t] = "idle"
  /\ nreq < MaxRequests
  /\ nreq' = nreq + 1
  /\ req' = [req EXCEPT ![t] = [method |-> "METRICS", key |-> NoKey, value |-> NoVal]]
  /\ Continue(t, handle_metrics, NoLoc)
  /\ UNCHANGED <<cache, cache_mu, db, pool_size, pool_conn, init_rc, phase, rr_idx, pool_mu, everStored>>

\* cache_stats between lock and unlock, then handle_metrics prints hits, misses, items.
CacheStatsBody(t) ==
  /\ pc[t] = "cache_body" /\ loc[t].call = "stats"
  /\ Continue(t, Respond(200, NoVal, ""), [loc[t] EXCEPT !.stats = cache_stats(cache)])
  /\ cache_mu' = 0
  /\ UNCHANGED <<cache, db, pool_size, pool_conn, init_rc, phase, rr_idx, pool_mu, req, nreq, everStored>>

NextStats ==
  \/ Next
  \/ \E t \in Threads : MetricsRecv(t) /\ UNCHANGED cobs /\ UNCHANGED sobs
  \/ \E t \in Threads : CacheStatsBody(t) /\ UNCHANGED cobs /\ UNCHANGED sobs

SpecStats == Init /\ [][NextStats]_vars

(***************************************************************************)
(* The put-only system: NumThreads workers call cache_put concurrently,    *)
(* each on keys of its own, as handle_post_kv does once db_put returned 0. *)
(***************************************************************************)
KeysOf(t) == {key \in PutKeys : key[1] % NumThreads = t - 1}

PutCall(t, key, value) ==
  /\ pc[t] = "idle"
  /\ nreq < MaxPuts
  /\ nreq' = nreq + 1
  /\ req' = [req EXCEPT ![t] = [method |-> "POST", key |-> key, value |-> value]]
  /\ Continue(t, handle_post_kv_db(0), NoLoc)
  /\ race' = [race EXCEPT !.written[key] = value]
  /\ UNCHANGED <<cache, cache_mu, db, pool_size, pool_conn, init_rc, phase, rr_idx, pool_mu, everStored, hist, snap>>

NextPuts ==
  \/ \E t \in Threads, value \in CacheValues : \E key \in KeysOf(t) : PutCall(t, key, value) /\ UNCHANGED cobs
  \/ \E t \in Threads : CacheLock(t) /\ UNCHANGED cobs /\ UNCHANGED sobs
  \/ \E t \in Threads : CachePutBody(t) /\ UNCHANGED cobs /\ UNCHANGED sobs
  \/ \E t \in Threads : CacheEvict(t) /\ UNCHANGED cobs /\ UNCHANGED sobs
  \/ \E t \in Threads : Return(t) /\ UNCHANGED cobs /\ UNCHANGED sobs

SpecPuts == Init /\ [][NextPuts]_vars

(***************************************************************************)
(* The concurrent system under fair scheduling: a worker that can run does *)
(* run, a store round trip ends (weak fairness of the steps that wait for  *)
(* nothing), and a thread waiting for a mutex that is unlocked again and   *)
(* again gets it (strong fairness of the two lock steps).  Nothing obliges *)
(* a client to send a request.                                             *)
(***************************************************************************)
\* The steps of worker t that wait for no lock.
Run(t) ==
  /\ \/ DbCall(t)
     \/ \E query_ok \in BOOLEAN, alloc_ok \in BOOLEAN : DbExec(t, query_ok, alloc_ok)
     \/ CacheGetBody(t)
     \/ CachePutBody(t)
     \/ CacheDeleteBody(t)
     \/ CacheEvict(t)
     \/ Return(t)
  /\ UNCHANGED cobs /\ UNCHANGED sobs

\* The steps of worker t that take a mutex.
Lock(t) ==
  /\ \/ DbLock(t)
     \/ CacheLock(t)
  /\ UNCHANGED cobs /\ UNCHANGED sobs

NextLive ==
  \/ \E pool_s \in 1 .. PoolSize : \E fail_at \in 0 .. pool_s : StartServer(pool_s, fail_at) /\ UNCHANGED cobs /\ UNCHANGED sobs
  \/ \E t \in Threads, r \in Requests : Recv(t, r[1], r[2], r[3], MaxLiveRequests) /\ UNCHANGED cobs /\ UNCHANGED sobs
  \/ \E t \in Threads : Run(t)
  \/ \E t \in Threads : Lock(t)

Fairness == \A t \in Threads : WF_vars(Run(t)) /\ SF_vars(Lock(t))

SpecLive == Init /\ [][NextLive]_vars /\ Fairness

(***************************************************************************)
(* The server from start to stop, db_init and stop_http_server step by     *)
(* step.  phase: "boot" (cache_init and mg_start done, no handler set),    *)
(* "db_init" (inside db_init's loop), "db_done" (db_init has returned),    *)
(* "running" (handlers registered), "stopping" (inside mg_stop),           *)
(* "mg_stopped", "db_down" (db_shutdown done), "stopped" (cache_free done).*)
(***************************************************************************)
\* The loop index of db_init: the connections opened so far.
OpenCount == Cardinality({i \in Slots : pool_conn[i] = "open"})

\* pool = calloc(pool_s, sizeof(dbconn_t)); pool_size = pool_s;
DbInitBegin(pool_s) ==
  /\ phase = "boot"
  /\ phase' = "db_init"
  /\ pool_size' = pool_s
  /\ pool_conn' = NoConns
  /\ UNCHANGED <<cache, cache_mu, db, init_rc, rr_idx, pool_mu, pc, req, loc, resp, nreq, everStored>>

\* One turn of the loop: PQconnectdb; on failure the cleanup and return -1; after
\* the last connection return 0.
DbInitConnect(conn_ok) ==
  /\ phase = "db_init"
  /\ IF OpenCount >= pool_size
     THEN /\ init_rc' = 0
          /\ phase' = "db_done"
          /\ UNCHANGED <<pool_size, pool_conn>>
     ELSE IF conn_ok
     THEN /\ pool_conn' = [pool_conn EXCEPT ![OpenCount] = "open"]
          /\ UNCHANGED <<pool_size, init_rc, phase>>
     ELSE /\ pool_conn' = [j \in Slots |-> IF j < OpenCount THEN "closed"
                                           ELSE IF j = OpenCount THEN "failed"
                                           ELSE pool_conn[j]]
          /\ pool_size' = 0
          /\ init_rc' = -1
          /\ phase' = "db_done"
  /\ UNCHANGED <<cache, cache_mu, db, rr_idx, pool_mu, pc, req, loc, resp, nreq, everStored>>

\* mg_set_request_handler for /kv, /kv/ and /metrics; return 0.
RegisterHandlers ==
  /\ phase = "db_done"
  /\ phase' = start_http_server(init_rc)
  /\ UNCHANGED <<cache, cache_mu, db, pool_size, pool_conn, init_rc, rr_idx, pool_mu, pc, req, loc, resp, nreq, everStored>>

\* main: getchar() returns, stop_http_server calls mg_stop: no request is handed to
\* a worker any more.
MgStop ==
  /\ phase = "running"
  /\ phase' = "stopping"
  /\ UNCHANGED <<cache, cache_mu, db, pool_size, pool_conn, init_rc, rr_idx, pool_mu, pc, req, loc, resp, nreq, everStored>>

\* mg_stop returns once every worker thread has ended, its handler having returned.
MgStopReturn ==
  /\ phase = "stopping"
  /\ \A t \in Threads : pc[t] = "idle"
  /\ phase' = "mg_stopped"
  /\ UNCHANGED <<cache, cache_mu, db, pool_size, pool_conn, init_rc, rr_idx, pool_mu, pc, req, loc, resp, nreq, everStored>>

\* Mutant: db_shutdown is called while mg_stop is still waiting for the workers.
DbShutdown_before_join ==
  /\ phase = "stopping"
  /\ phase' = "db_down"
  /\ pool_conn' = [i \in Slots |-> IF i < pool_size THEN "closed" ELSE pool_conn[i]]
  /\ pool_size' = 0
  /\ UNCHANGED <<cache, cache_mu, db, init_rc, rr_idx, pool_mu, pc, req, loc, resp, nreq, everStored>>

\* db_shutdown: nothing if pool is NULL; else PQfinish and pthread_mutex_destroy for
\* every slot, free(pool), pool = NULL, pool_size = 0.
DbShutdown ==
  /\ phase = "mg_stopped"
  /\ phase' = "db_down"
  /\ pool_conn' = [i \in Slots |-> IF i < pool_size THEN "closed" ELSE pool_conn[i]]
  /\ pool_size' = 0
  /\ UNCHANGED <<cache, cache_mu, db, init_rc, rr_idx, pool_mu, pc, req, loc, resp, nreq, everStored>>

\* cache_free: every entry, the buckets and the cache are freed (cache = NULL); the
\* model keeps the last contents in cache and knows the cache is gone by the phase.
CacheFree ==
  /\ phase = "db_down"
  /\ cache_mu = 0
  /\ phase' = "stopped"
  /\ UNCHANGED <<cache, cache_mu, db, pool_size, pool_conn, init_rc, rr_idx, pool_mu, pc, req, loc, resp, nreq, everStored>>

NextLifecycle ==
  \/ \E pool_s \in 1 .. PoolSize : DbInitBegin(pool_s) /\ UNCHANGED cobs /\ UNCHANGED sobs
  \/ \E conn_ok \in BOOLEAN : DbInitConnect(conn_ok) /\ UNCHANGED cobs /\ UNCHANGED sobs
  \/ RegisterHandlers /\ UNCHANGED cobs /\ UNCHANGED sobs
  \/ \E t \in Threads, r \in Requests : Recv(t, r[1], r[2], r[3], MaxLifeRequests) /\ UNCHANGED cobs /\ UNCHANGED sobs
  \/ \E t \in Threads : DbCall(t) /\ UNCHANGED cobs /\ UNCHANGED sobs
  \/ \E t \in Threads : DbLock(t) /\ UNCHANGED cobs /\ UNCHANGED sobs
  \/ \E t \in Threads, query_ok \in BOOLEAN, alloc_ok \in BOOLEAN : DbExec(t, query_ok, alloc_ok) /\ UNCHANGED cobs /\ UNCHANGED sobs
  \/ \E t \in Threads : CacheLock(t) /\ UNCHANGED cobs /\ UNCHANGED sobs
  \/ \E t \in Threads : CacheGetBody(t) /\ UNCHANGED cobs /\ UNCHANGED sobs
  \/ \E t \in Threads : CachePutBody(t) /\ UNCHANGED cobs /\ UNCHANGED sobs
  \/ \E t \in Threads : CacheDeleteBody(t) /\ UNCHANGED cobs /\ UNCHANGED sobs
  \/ \E t \in Threads : CacheEvict(t) /\ UNCHANGED cobs /\ UNCHANGED sobs
  \/ \E t \in Threads : Return(t) /\ UNCHANGED cobs /\ UNCHANGED sobs
  \/ MgStop /\ UNCHANGED cobs /\ UNCHANGED sobs
  \/ MgStopReturn /\ UNCHANGED cobs /\ UNCHANGED sobs
  \/ DbShutdown /\ UNCHANGED cobs /\ UNCHANGED sobs
  \/ CacheFree /\ UNCHANGED cobs /\ UNCHANGED sobs

SpecLifecycle == Init /\ [][NextLifecycle]_vars

(***************************************************************************)
(* The round-robin system: the server is running with a pool of any size   *)
(* up to MaxPool, and rr_idx is where earlier acquisitions have left it.   *)
(***************************************************************************)
StartCounters ==
  {<<0, 0>>, <<0, HalfWord - 1>>, <<HalfWord - 1, HalfWord - 2>>, <<HalfWord - 1, HalfWord - 1>>}

InitRR ==
  /\ \E capacity \in 1 .. MaxCapacity : cache = cache_init(capacity)
  /\ cache_mu = 0
  /\ db \in InitialStores
  /\ pool_size \in 1 .. MaxPool
  /\ pool_conn = db_init(pool_size, pool_size).conn
  /\ init_rc = 0
  /\ phase = start_http_server(init_rc)
  /\ rr_idx \in StartCounters
  /\ pool_mu = [i \in Slots |-> 0]
  /\ pc = [t \in Threads |-> "idle"]
  /\ req = [t \in Threads |-> NoReq]
  /\ loc = [t \in Threads |-> NoLoc]
  /\ resp = [t \in Threads |-> NoResp]
  /\ nreq = 0
  /\ everStored = {<<k, db[k]>> : k \in {j \in SysKeys : db[j] # NoVal}}
  /\ InitObs

NextRR ==
  \/ \E t \in Threads, r \in Requests : Recv(t, r[1], r[2], r[3], MaxRRRequests) /\ UNCHANGED cobs /\ UNCHANGED sobs
  \/ \E t \in Threads : DbCall(t) /\ UNCHANGED cobs /\ UNCHANGED sobs
  \/ \E t \in Threads : DbLock(t) /\ UNCHANGED cobs /\ UNCHANGED sobs
  \/ \E t \in Threads, query_ok \in BOOLEAN, alloc_ok \in BOOLEAN : DbExec(t, query_ok, alloc_ok) /\ UNCHANGED cobs /\ UNCHANGED sobs
  \/ \E t \in Threads : CacheLock(t) /\ UNCHANGED cobs /\ UNCHANGED sobs
  \/ \E t \in Threads : CacheGetBody(t) /\ UNCHANGED cobs /\ UNCHANGED sobs
  \/ \E t \in Threads : CachePutBody(t) /\ UNCHANGED cobs /\ UNCHANGED sobs
  \/ \E t \in Threads : CacheDeleteBody(t) /\ UNCHANGED cobs /\ UNCHANGED sobs
  \/ \E t \in Threads : CacheEvict(t) /\ UNCHANGED cobs /\ UNCHANGED sobs
  \/ \E t \in Threads : Return(t) /\ UNCHANGED cobs /\ UNCHANGED sobs

SpecRR == InitRR /\ [][NextRR]_vars

(***************************************************************************)
(* Properties.                                                             *)
(***************************************************************************)
Last(h) == h[Len(h)]
InStoreCall(t) == pc[t] \in {"db_call", "db_lock", "db_exec"}
Answered(t, method) == pc[t] = "done" /\ req[t].method = method
PutOk(e, key) == e.method = "POST" /\ e.key = key /\ e.status = 201

\* C1: Put calls the store write first, and when that write fails (query failure, or
\* no pool) Put answers with an error and the cache is exactly as it was when the
\* Put arrived: same entries, values, recency order and size.
C1_PutFailureLeavesCache ==
  /\ (req[Caller].method = "POST" /\ InStoreCall(Caller)) => cache = snap
  /\ (Answered(Caller, "POST") /\ loc[Caller].store \in {"fail", "nopool"}) =>
        (resp[Caller].status = 500 /\ cache = snap)

C1_Witness ==
  /\ Answered(Caller, "POST")
  /\ loc[Caller].store = "fail"
  /\ cached_value(cache, req[Caller].key) \notin {NoVal, req[Caller].value}

\* C2: in every state of every interleaving, a value the cache holds for a key is a
\* value kv_store has held for that key at an earlier point of the run.
C2_CacheHoldsOnlyStored ==
  \A e \in hash_nodes(cache) : <<cache.ekey[e], cache.evalue[e]>> \in everStored

C2_Witness ==
  \E k \in SysKeys :
    /\ cached_value(cache, k) # NoVal
    /\ db[k] # NoVal
    /\ db[k] # cached_value(cache, k)
    /\ \E t \in Threads : loc[t].store = "fail"

\* C3: the cache holds more than capacity entries only inside a cache_put that holds
\* the lock and has yet to evict; whoever else is in a cache call holds the lock and
\* sees at most capacity entries, and so does every state in which the lock is free.
C3_SizeWithinCapacity ==
  /\ \A t \in Threads : pc[t] \in {"cache_body", "cache_evict"} => cache_mu = t
  /\ cache.size > cache.capacity => (cache_mu \in Threads /\ pc[cache_mu] = "cache_evict")

C3_Witness ==
  /\ cache.size > cache.capacity
  /\ \E t \in Threads : pc[t] = "cache_lock" /\ loc[t].call = "get"

\* C4: a cache of capacity N that starts empty and is given N+1 puts of distinct keys
\* and nothing else has evicted exactly the first key; the other N are cached with
\* their values.
C4_FirstKeyEvicted ==
  (log.ok /\ Len(log.puts) = cache.capacity + 1) =>
    /\ cache.size = cache.capacity
    /\ lookup(cache, log.puts[1][1]) = NULL
    /\ cached_keys(cache) = {log.puts[i][1] : i \in 2 .. (cache.capacity + 1)}
    /\ \A i \in 2 .. (cache.capacity + 1) : cached_value(cache, log.puts[i][1]) = log.puts[i][2]

C4_Witness ==
  /\ log.ok
  /\ Len(log.puts) = cache.capacity + 1
  /\ cache.capacity = MaxCapacity
  /\ log.puts[1][1] = KeyD /\ log.puts[2][1] = KeyK

\* C5: after every sequence of cache calls the recency list and the hash table hold
\* what the reference LRU holds, in the same order and with the same values (so both
\* evict the same keys); and with capacity 2 the calls put(a,1), put(b,2), put(c,3)
\* leave {b, c}, get(b) hits, and put(d,4) leaves {b, d}.
C5_RefinesReferenceLRU ==
  /\ lru_list(cache) = ref
  /\ cache.size = Len(ref)
  /\ \A k \in CacheKeys : cached_value(cache, k) = RefValue(ref, k)
  /\ cached_keys(cache) = {ref[i][1] : i \in 1 .. Len(ref)}
  /\ scen = 3 => cached_keys(cache) = {KeyB, KeyC}
  /\ scen = 4 => (cached_keys(cache) = {KeyB, KeyC} /\ cache.hits = 1 /\ cache.misses = 0)
  /\ scen = 5 => (cached_keys(cache) = {KeyB, KeyD} /\ cached_value(cache, KeyB) = 2
                                                     /\ cached_value(cache, KeyD) = 4)

C5_Witness == scen = 5

C13_GetMissNotFound ==
  (Answered(Caller, "GET") /\ loc[Caller].store \in {"absent", "fail", "nomem", "nopool"}) =>
    /\ resp[Caller] = [status |-> 404, value |-> NoVal, source |-> ""]
    /\ lookup(snap, req[Caller].key) = NULL
    /\ cache = [snap EXCEPT !.misses = @ + 1]

C13_Witness ==
  /\ Answered(Caller, "GET")
  /\ loc[Caller].store = "fail"
  /\ db[req[Caller].key] # NoVal
  /\ cache.size >= 1
  /\ cache.misses >= 1

Quiescent == \A t \in Threads : pc[t] = "idle"

C15_QuiescentCacheMatchesStore ==
  Quiescent => \A e \in hash_nodes(cache) : db[cache.ekey[e]] = cache.evalue[e]

\* C16: once a Delete(k) whose db_delete returned 0 has returned, with no Put(k) in
\* flight when that Delete began or started since, a Get(k) that starts afterwards
\* answers not found, whatever Gets were in flight while the Delete ran.
C16_NoGetAfterDelete ==
  \A t \in Threads :
    (Answered(t, "GET") /\ race.after[t] /\ req[t].key \in race.deleted) =>
      resp[t].status = 404

Min(a, b) == IF a < b THEN a ELSE b
KeysWritten == {k \in PutKeys : race.written[k] # NoVal}

\* C17: when the workers put concurrently, each on keys of its own, then once every
\* put has returned the cache holds min(number of distinct keys written, capacity)
\* entries, no key twice, and every cached key has the value of the latest put of it.
C17_ConcurrentPuts ==
  Quiescent =>
    /\ cache.size = Min(Cardinality(KeysWritten), cache.capacity)
    /\ Len(lru_list(cache)) = cache.size
    /\ Cardinality(hash_nodes(cache)) = cache.size
    /\ Cardinality(cached_keys(cache)) = cache.size
    /\ \A e \in hash_nodes(cache) : cache.evalue[e] = race.written[cache.ekey[e]]

C17_Witness ==
  /\ Quiescent
  /\ Cardinality(KeysWritten) > cache.capacity
  /\ cache.capacity > 1
  /\ nreq = MaxPuts
  /\ \E e \in hash_nodes(cache) : cache.evalue[e] = 2

InRoundTrip == {t \in Threads : pc[t] = "db_exec"}
InAcquire == {t \in Threads : pc[t] = "db_lock"}

\* C18: with a pool of N connections, at most N store operations are inside their
\* round trip at any moment; and while N are, a further operation waiting in
\* acquire_conn cannot proceed: its slot's mutex is held by one of those N, until
\* that one has finished its round trip and released the slot.
C18_PoolBoundsRoundTrips ==
  /\ Cardinality(InRoundTrip) <= pool_size
  /\ \A t \in InAcquire :
        Cardinality(InRoundTrip) = pool_size =>
          /\ pool_mu[loc[t].idx] \in InRoundTrip
          /\ ~ ENABLED DbLock(t)

C18_Witness ==
  /\ pool_size >= 1
  /\ Cardinality(InRoundTrip) = pool_size
  /\ Cardinality(InRoundTrip) + Cardinality(InAcquire) = pool_size + 1

\* C19: every pool slot is held by at most one thread, and a thread is inside a
\* store round trip only on a slot of the pool whose mutex it holds.
C19_SlotExclusive ==
  /\ \A t \in InRoundTrip : loc[t].idx \in 0 .. (pool_size - 1) /\ pool_mu[loc[t].idx] = t
  /\ \A i \in DOMAIN pool_mu :
        pool_mu[i] # 0 => (pool_mu[i] \in InRoundTrip /\ loc[pool_mu[i]].idx = i)
  /\ \A t \in InRoundTrip, u \in InRoundTrip : t # u => loc[t].idx # loc[u].idx

C19_Witness ==
  /\ Cardinality(InRoundTrip) = 2
  /\ \E t \in Threads : pc[t] = "db_exec" /\ loc[t].idx = 1 /\ pool_mu[1] = t

PoolInitFailed == phase # "boot" /\ pool_size = 0

\* C20 as claimed: when db_init has failed the service does not start: it never
\* accepts or answers a request.
C20_InitFailureIsFatal ==
  PoolInitFailed => (phase # "running" /\ \A t \in Threads : pc[t] = "idle")

\* C20 as amended: when db_init has failed the service starts all the same and
\* accepts requests; no store operation reaches kv_store or the pool, so a Put
\* answers a server error, a Get and a Delete answer not found, and the cache
\* stays empty.
C20_InitFailureDegrades ==
  PoolInitFailed =>
    /\ phase = "running"
    /\ \A t \in Threads :
          /\ (pc[t] = "idle" /\ nreq < MaxRequests) =>
                ENABLED (\E r \in Requests : Recv(t, r[1], r[2], r[3], MaxRequests))
          /\ pc[t] \notin {"db_lock", "db_exec"}
          /\ Answered(t, "POST") => resp[t].status = 500
          /\ Answered(t, "GET") => resp[t].status = 404
          /\ Answered(t, "DELETE") => resp[t].status = 404
    /\ cache.size = 0
    /\ rr_idx = <<0, 0>>
    /\ \A i \in DOMAIN pool_mu : pool_mu[i] = 0

C20_Witness ==
  /\ PoolInitFailed
  /\ \E t \in Threads : Answered(t, "POST") /\ resp[t].status = 500
  /\ \E t \in Threads : Answered(t, "GET") /\ resp[t].status = 404 /\ db[req[t].key] # NoVal

\* C21: once db_init has returned, either it returned -1, pool_size is 0 and no
\* connection is open (those opened before the failing one are finished), or it
\* returned 0 and the connections 0 .. pool_size-1 are all open; a connection that
\* failed to open always comes with the -1.
C21_InitAllOrNothing ==
  phase # "boot" =>
    /\ init_rc \in {0, -1}
    /\ init_rc = -1 => (pool_size = 0 /\ \A i \in Slots : pool_conn[i] # "open")
    /\ init_rc = 0 =>
          /\ pool_size >= 1
          /\ \A i \in Slots : pool_conn[i] = (IF i < pool_size THEN "open" ELSE "none")
    /\ (\E i \in Slots : pool_conn[i] = "failed") => init_rc = -1

C21_Witness ==
  /\ phase # "boot"
  /\ init_rc = -1
  /\ pool_conn[0] = "closed" /\ pool_conn[1] = "failed"

InCacheCall == {t \in Threads : pc[t] \in {"cache_body", "cache_evict"}}

\* C22: the step in which cache_stats reads the counters gives the handler the hits,
\* the misses and the number of linked entries of the cache as it is at that one
\* step, and at that step no other thread is inside a cache operation.
C22_StatsSnapshot ==
  [][\A t \in Threads :
       (pc[t] = "cache_body" /\ loc[t].call = "stats" /\ pc'[t] = "done") =>
         /\ loc'[t].stats = [hits |-> cache.hits, misses |-> cache.misses,
                              items |-> Cardinality(hash_nodes(cache))]
         /\ InCacheCall = {t}
         /\ cache' = cache]_vars

C22_Witness ==
  \E t \in Threads, u \in Threads :
    /\ Answered(t, "METRICS")
    /\ loc[t].stats.items = 1 /\ loc[t].stats.misses = 1
    /\ pc[u] = "done" /\ req[u].method = "DELETE"
    /\ cache.size = 0

\* What a store call handed back to its handler: the return code and the value.
Outcome(t) == <<loc[t].rc_db, loc[t].val>>
Returned(t, method) == req[t].method = method /\ loc[t].store # "none"

\* C23: a db_delete that has returned gave 0 exactly when a row of the key existed
\* and was deleted; with no row for the key it did not give 0.
C23_DeleteAbsentNotFound ==
  \A t \in Threads :
    Returned(t, "DELETE") => (loc[t].rc_db = 0 <=> loc[t].store = "ok")

\* C24 as stated: of two store calls of the same kind that have returned, one having
\* found no row and the other having failed, the outcomes differ; for db_get and
\* for db_delete.
C24_AbsentDiffersFromFailure ==
  \A t \in Threads, u \in Threads, m \in {"GET", "DELETE"} :
    (Returned(t, m) /\ Returned(u, m) /\ loc[t].store = "absent" /\ loc[u].store = "fail")
      => Outcome(t) # Outcome(u)

\* C24: db_get hands back 0 and the row's value when it read a row, and the same
\* outcome, -1 and no value, when there was no row, when the query failed, when
\* malloc failed and when the pool is NULL.  db_delete hands back -1 when the
\* statement failed or the pool is NULL and 0 when the statement ran, so its outcome
\* for a key without a row differs from its outcome for a failure.
C24_StoreOutcomes ==
  \A t \in Threads :
    /\ Returned(t, "GET") =>
          /\ loc[t].store \in {"ok", "absent", "fail", "nomem", "nopool"}
          /\ loc[t].store = "ok" => (loc[t].rc_db = 0 /\ loc[t].val # NoVal)
          /\ loc[t].store # "ok" => Outcome(t) = <<-1, NoVal>>
    /\ Returned(t, "DELETE") =>
          /\ loc[t].store \in {"ok", "absent", "fail", "nopool"}
          /\ loc[t].store \in {"fail", "nopool"} => loc[t].rc_db = -1
          /\ loc[t].store \in {"ok", "absent"} => loc[t].rc_db = 0

C24_Witness ==
  \E t \in Threads, u \in Threads :
    /\ Returned(t, "GET") /\ Returned(u, "GET")
    /\ loc[t].store = "absent" /\ loc[u].store = "fail"
    /\ Outcome(t) = Outcome(u)

\* The entries of the cache that hold key.
EntriesOf(c, key) == {e \in hash_nodes(c) : c.ekey[e] = key}
\* The caller's request repeats the successful Put it answered last.
RepeatsLastPut ==
  /\ req[Caller].method = "POST"
  /\ Len(hist) >= 1
  /\ PutOk(Last(hist), req[Caller].key)
  /\ Last(hist).value = req[Caller].value

C26_SlotChosenBeforeLock ==
  [][\A t \in Threads :
       /\ (pc[t] = "db_call" /\ pc'[t] = "db_lock") =>
             /\ loc'[t].idx = rr_mod(rr_idx, pool_size)
             /\ pool_mu' = pool_mu
       /\ (pc[t] = "db_lock" /\ pool_mu[loc[t].idx] # 0) =>
             (pc'[t] = "db_lock" /\ loc'[t] = loc[t])
       /\ (pc[t] = "db_lock" /\ pc'[t] # "db_lock") =>
             /\ pc'[t] = "db_exec"
             /\ pool_mu[loc[t].idx] = 0
             /\ pool_mu' = [pool_mu EXCEPT ![loc[t].idx] = t]
             /\ loc'[t].idx = loc[t].idx]_vars

C26_Witness ==
  \E t \in Threads, u \in Threads, i \in 0 .. (pool_size - 1) :
    /\ pc[t] = "db_lock"
    /\ pool_mu[loc[t].idx] = u /\ u # t /\ pc[u] = "db_exec"
    /\ i # loc[t].idx /\ pool_mu[i] = 0
    /\ ~ ENABLED DbLock(t)

\* C27: every step that takes a counter value gives the thread a slot in 0..N-1, the
\* counter modulo N, leaves a different counter behind, and the slot the next
\* acquisition will be given is the one after it, (s + 1) mod N; for every pool
\* size and counter value, the step from 2^32 - 1 to 0 included.
C27_SlotsCycleInOrder ==
  [][\A t \in Threads :
       (pc[t] = "db_call" /\ pc'[t] = "db_lock") =>
         /\ loc'[t].idx \in 0 .. (pool_size - 1)
         /\ loc'[t].idx = rr_mod(rr_idx, pool_size)
         /\ rr_idx' # rr_idx
         /\ rr_mod(rr_idx', pool_size) = (loc'[t].idx + 1) % pool_size]_vars

HeldSlots(t) == {i \in Slots : pool_mu[i] = t}

\* C28: no thread holds cache->mu and the mutex of a pool slot together: a thread
\* holds cache->mu only inside a cache call and a slot only inside the round trip
\* of a store call, and a thread inside either holds no lock of the other kind.
C28_NoLockHeldAcross ==
  \A t \in Threads :
    /\ ~ (cache_mu = t /\ HeldSlots(t) # {})
    /\ cache_mu = t <=> pc[t] \in {"cache_body", "cache_evict"}
    /\ HeldSlots(t) # {} <=> pc[t] = "db_exec"
    /\ pc[t] = "db_exec" => HeldSlots(t) = {loc[t].idx}

C28_Witness ==
  \E t \in Threads, u \in Threads :
    /\ t # u
    /\ cache_mu = t /\ loc[t].ndb = 1 /\ req[t].method = "GET"
    /\ HeldSlots(u) # {}
    /\ pc[u] = "db_exec" /\ req[u].method = "GET"

\* C29: the step in which db_get, db_put or db_delete returns from its round trip,
\* whatever the outcome (a row, no row, a failed query, a failed malloc), unlocks
\* the slot the call had locked and changes no other slot's lock, the pool size or
\* a connection; and a thread that waits for a slot which is unlocked can lock it.
C29_FailureLeavesPool ==
  /\ [][\A t \in Threads :
          (pc[t] = "db_exec" /\ pc'[t] # "db_exec") =>
            /\ loc'[t].store \in {"ok", "absent", "fail", "nomem"}
            /\ pool_mu[loc[t].idx] = t
            /\ pool_mu' = [pool_mu EXCEPT ![loc[t].idx] = 0]
            /\ pool_size' = pool_size /\ pool_size >= 1
            /\ pool_conn' = pool_conn
            /\ \A i \in 0 .. (pool_size - 1) : pool_conn[i] = "open"]_vars
  /\ [](\A u \in Threads :
          (pc[u] = "db_lock" /\ pool_mu[loc[u].idx] = 0) => ENABLED DbLock(u))

C29_Witness ==
  \E t \in Threads, u \in Threads :
    /\ t # u
    /\ pc[t] = "done" /\ loc[t].store = "nomem"
    /\ pc[u] = "db_exec" /\ loc[u].idx = loc[t].idx /\ pool_mu[loc[u].idx] = u
    /\ pool_size = 2 /\ pool_mu[1 - loc[u].idx] = 0

Serving(t) == pc[t] \notin {"idle", "done"}

\* C30: under fair scheduling every request a worker has taken is answered, and in
\* every reachable state each thread that holds a mutex (cache->mu or a slot's)
\* has a step it can take, so no thread waits for a lock that is never released.
C30_Progress ==
  /\ \A t \in Threads : Serving(t) ~> (pc[t] = "done")
  /\ [](\A t \in Threads : (cache_mu = t \/ HeldSlots(t) # {}) => ENABLED Run(t))

C30_Witness ==
  \E t \in Threads, u \in Threads :
    /\ pc[t] = "db_lock" /\ pool_mu[loc[t].idx] = u /\ u # t
    /\ pc[u] = "db_exec"
    /\ ~ ENABLED Lock(t)

\* The values of the cached keys, and the recency list with one key left out.
ValueMap(c) == [k \in cached_keys(c) |-> cached_value(c, k)]
ListWithout(c, key) == SelectSeq(lru_list(c), LAMBDA p : p[1] # key)

\* C31: a cache_get of a cached key adds one to hits, leaves misses, puts the entry
\* at the head of the list with the others in their order, and leaves keys, values
\* and size as they were; a cache_get of any other key adds one to misses and
\* changes nothing else.  A cache_put or cache_delete changes neither counter, and
\* in every state hits + misses is the number of cache_get calls that have returned.
C31_GetCounters ==
  /\ [][LET call == log'.last
            key  == log'.last[2]
        IN /\ (call[1] = "get" /\ lookup(cache, key) # NULL) =>
                 /\ cache'.hits = cache.hits + 1 /\ cache'.misses = cache.misses
                 /\ lru_list(cache') = <<(<<key, cached_value(cache, key)>>)>> \o ListWithout(cache, key)
                 /\ ValueMap(cache') = ValueMap(cache)
                 /\ cache'.size = cache.size
                 /\ log'.ret = cached_value(cache, key)
           /\ (call[1] = "get" /\ lookup(cache, key) = NULL) =>
                 /\ cache' = [cache EXCEPT !.misses = cache.misses + 1]
                 /\ log'.ret = NoVal
           /\ call[1] \in {"put", "delete"} =>
                 (cache'.hits = cache.hits /\ cache'.misses = cache.misses)]_vars
  /\ [](cache.hits + cache.misses = log.gets)

C31_Witness ==
  /\ log.last[1] = "get" /\ log.ret # NoVal
  /\ cache.hits = 1 /\ cache.misses = 1 /\ log.gets = 2
  /\ cache.size = 2
  /\ lru_list(cache)[1][1] = log.last[2]

\* C32: a cache_put of a cached key replaces its value, puts the entry at the head
\* of the list with the others in their order, and leaves the keys and the size as
\* they were (nothing is evicted); a cache_put of any other key links a new entry
\* at the head, so that the list is the new entry followed by the old list, cut to
\* the size left after eviction; and when cache_put has returned the key is cached
\* with the value given.
C32_PutPlacesEntry ==
  [][LET call  == log'.last
         key   == log'.last[2]
         value == log'.last[3]
         all   == <<(<<key, value>>)>> \o lru_list(cache)
     IN call[1] = "put" =>
          /\ lookup(cache, key) # NULL =>
                /\ lru_list(cache') = <<(<<key, value>>)>> \o ListWithout(cache, key)
                /\ cached_keys(cache') = cached_keys(cache)
                /\ cache'.size = cache.size
          /\ lookup(cache, key) = NULL =>
                /\ cache'.size \in {cache.size, cache.size + 1}
                /\ lru_list(cache') = SubSeq(all, 1, cache'.size)
          /\ lookup(cache', key) # NULL
          /\ cached_value(cache', key) = value
          /\ log'.ret = 0]_vars

\* The entries linked in the LRU list, from the head.
RECURSIVE list_nodes(_, _, _)
list_nodes(c, e, fuel) ==
  IF e = NULL \/ fuel = 0 THEN {}
  ELSE {e} \cup list_nodes(c, c.next[e], fuel - 1)

lru_nodes(c) == list_nodes(c, c.lru_head, c.capacity + 2)

\* C33: a cache_delete of a cached key returns 0, takes the key's entry out of its
\* bucket and out of the LRU list, makes size one smaller, and leaves the other
\* entries with their values in the order they had; a cache_delete of any other key
\* returns -1 and leaves the cache as it was.
C33_DeleteRemovesEntry ==
  [][LET call == log'.last
         key  == log'.last[2]
     IN call[1] = "delete" =>
          /\ lookup(cache, key) # NULL =>
                /\ log'.ret = 0
                /\ lookup(cache', key) = NULL
                /\ hash_nodes(cache') = hash_nodes(cache) \ {lookup(cache, key)}
                /\ lru_nodes(cache') = lru_nodes(cache) \ {lookup(cache, key)}
                /\ lru_list(cache') = ListWithout(cache, key)
                /\ cache'.size = cache.size - 1
          /\ lookup(cache, key) = NULL =>
                (log'.ret = -1 /\ cache' = cache)]_vars

C33_Witness ==
  /\ log.last[1] = "delete" /\ log.ret = 0
  /\ cache.capacity = 2 /\ cache.size = 1
  /\ lookup(cache, log.last[2]) = NULL
  /\ cache.lru_head # NULL /\ cache.lru_head = cache.lru_tail

\* The entries linked in the LRU list, walked from the tail through prev.
RECURSIVE list_nodes_back(_, _, _)
list_nodes_back(c, e, fuel) ==
  IF e = NULL \/ fuel = 0 THEN {}
  ELSE {e} \cup list_nodes_back(c, c.prev[e], fuel - 1)

\* C34: whenever no thread is inside a cache call, size is the number of entries
\* reachable through the hash buckets and the number of nodes of the LRU list (the
\* list read from the head and from the tail), the buckets and the list hold the
\* same entries, no two entries have the same key, every entry sits in the bucket
\* of its key, and lru_head and lru_tail are NULL exactly when size is 0.
C34_CacheStructure ==
  cache_mu = 0 =>
    /\ cache.size = Cardinality(hash_nodes(cache))
    /\ cache.size = Len(lru_list(cache))
    /\ cache.size = Cardinality(lru_nodes(cache))
    /\ lru_nodes(cache) = hash_nodes(cache)
    /\ list_nodes_back(cache, cache.lru_tail, cache.capacity + 2) = lru_nodes(cache)
    /\ \A e \in hash_nodes(cache), f \in hash_nodes(cache) :
          cache.ekey[e] = cache.ekey[f] => e = f
    /\ \A e \in hash_nodes(cache) : lookup(cache, cache.ekey[e]) = e
    /\ (cache.lru_head = NULL) <=> (cache.size = 0)
    /\ (cache.lru_tail = NULL) <=> (cache.size = 0)

C34_Witness ==
  /\ cache_mu = 0
  /\ cache.capacity = 2 /\ cache.size = 2
  /\ cache.lru_head # cache.lru_tail
  /\ \E t \in Threads : Answered(t, "POST") /\ resp[t].status = 201

\* C35: a cache_put removes at most one key from the cache; it removes one only if
\* its key was not cached and size was equal to capacity when it was called; the key
\* removed is the one at the tail of the LRU list as evict_if_needed finds it, and
\* it is not the key that was put.
C35_AtMostOneEviction ==
  [][LET call    == log'.last
         key     == log'.last[2]
         all     == <<(<<key, log'.last[3]>>)>> \o ListWithout(cache, key)
         evicted == (cached_keys(cache) \cup {key}) \ cached_keys(cache')
     IN call[1] = "put" =>
          /\ Cardinality(evicted) <= 1
          /\ evicted # {} =>
                /\ lookup(cache, key) = NULL
                /\ cache.size = cache.capacity
                /\ evicted = {all[Len(all)][1]}
          /\ key \notin evicted]_vars

\* C36: in every state the capacity the cache was initialised with is at least 1,
\* and a cache_put of a key that was not cached leaves that key cached.
C36_CapacityPositive ==
  /\ [](cache.capacity >= 1)
  /\ [][(log'.last[1] = "put" /\ lookup(cache, log'.last[2]) = NULL) =>
          lookup(cache', log'.last[2]) # NULL]_vars

\* The pool is NULL, or every one of its slots has its connection and its mutex.
PoolWhole ==
  \/ pool_size = 0 /\ \A i \in Slots : pool_conn[i] # "open"
  \/ pool_size >= 1 /\ \A i \in Slots : (pool_conn[i] = "open") <=> (i < pool_size)
InHandler(t) == pc[t] # "idle"

\* C38: no worker is handed a request before db_init has returned and the handlers
\* are registered, db_shutdown and cache_free run only when mg_stop has returned
\* with every worker ended, and so whenever a handler is running the pool is whole
\* (NULL, or all pool_size slots set up), no connection of the pool is closed, and
\* the cache has not been freed.
C38_LifecycleOrder ==
  /\ phase \in {"boot", "db_init", "db_done"} => (nreq = 0 /\ \A t \in Threads : ~ InHandler(t))
  /\ phase \in {"mg_stopped", "db_down", "stopped"} => \A t \in Threads : ~ InHandler(t)
  /\ \A t \in Threads :
        InHandler(t) =>
          /\ phase \in {"running", "stopping"}
          /\ PoolWhole
          /\ pc[t] \in {"db_lock", "db_exec"} => pool_conn[loc[t].idx] = "open"

C38_Witness ==
  /\ phase = "stopping"
  /\ pool_size = 2
  /\ \E t \in Threads : pc[t] = "db_exec" /\ loc[t].idx = 1
  /\ ~ ENABLED MgStopReturn
  /\ ~ ENABLED DbShutdown

\* pool is NULL: before db_init, after a db_init that failed, after db_shutdown.
PoolNull == pool_size = 0
\* db_init has never returned 0.
NeverInitialised == phase = "boot" \/ init_rc = -1

\* C37: a db_get, db_put or db_delete called while pool is NULL returns -1 in that
\* one step, with the counter, every slot's mutex and kv_store as they were, and no
\* thread is ever inside acquire_conn or a round trip while pool is NULL; a Put
\* answered while pool is NULL answers 500 and a Get 404; and as long as db_init
\* has never succeeded the cache is empty, the counter is 0 and no mutex is held.
C37_NullPoolFailsFast ==
  /\ [][\A t \in Threads :
          (PoolNull /\ pc[t] = "db_call" /\ pc'[t] # "db_call") =>
            /\ loc'[t].rc_db = -1 /\ loc'[t].store = "nopool"
            /\ pc'[t] \notin {"db_lock", "db_exec"}
            /\ rr_idx' = rr_idx /\ pool_mu' = pool_mu /\ db' = db]_vars
  /\ [](PoolNull =>
          \A t \in Threads :
            /\ pc[t] \notin {"db_lock", "db_exec"}
            /\ Answered(t, "POST") => resp[t].status = 500
            /\ Answered(t, "GET") => resp[t].status = 404)
  /\ [](NeverInitialised =>
          /\ PoolNull
          /\ cache.size = 0 /\ hash_nodes(cache) = {}
          /\ rr_idx = <<0, 0>>
          /\ \A i \in Slots : pool_mu[i] = 0)

C37_Witness ==
  /\ phase = "stopping" /\ init_rc = -1 /\ PoolNull
  /\ \E t \in Threads :
        /\ Answered(t, "POST") /\ loc[t].store = "nopool" /\ loc[t].ndb = 1
        /\ resp[t].status = 500
  /\ \E u \in Threads : pc[u] = "db_call" /\ req[u].method = "GET" /\ db[req[u].key] # NoVal
  /\ cache.misses = 1

====
